---- MODULE Spec2Model ----
(***************************************************************************)
(* Model of jsonutils/ordered_map.go: the order-preserving JSON object     *)
(* codec (JSONMapSlice / JSONMapItem) on top of encoding/json's token      *)
(* stream.                                                                 *)
(*                                                                         *)
(* A buffer is a sequence of bytes, a string a sequence of characters.  An *)
(* ASCII character is its byte, written as a one-character string, or by   *)
(* its code ("0x08") where it cannot be written so.  The buffers handed to *)
(* the decoder hold ASCII bytes only; a character above 0x7f comes from a  *)
(* \u escape only and is written by its code point ("U+00E9"), one element *)
(* for the bytes of its UTF-8 form.                                        *)
(*                                                                         *)
(* Every Go value of dynamic type is a record [t |-> type, v |-> payload]  *)
(* whose payload is always a sequence:                                     *)
(*   "string"  : the characters                                            *)
(*   "float64" : <<sg, m, s>>, the number sg * m / 10^s with sg 1 or -1,   *)
(*               m >= 0 no multiple of 10; zero is <<sg, 0, 0>> and the    *)
(*               infinity strconv returns with ErrRange is <<sg, 0, -1>>   *)
(*   "int64"   : <<n>>                                                     *)
(*   "bool"    : <<TRUE>> or <<FALSE>>                                     *)
(*   "nil"     : <<>>  (the nil interface)                                 *)
(*   "Delim"   : <<c>>, c one of { } [ ]                                   *)
(*   "slice"   : the elements of a []any                                   *)
(*   "JSONMapSlice" : the items [Key |-> chars, Value |-> value]           *)
(*   "nilJSONMapSlice" : <<>>  (a JSONMapSlice that is nil)                *)
(*   "chan"    : <<>>  (a channel: a value no JSON writer renders)         *)
(*   "number"  : the characters of a number literal (in a text's syntax    *)
(*               tree only, never a Go value)                              *)
(* Errors are strings, "nil" for no error.  A float64 is the shortest      *)
(* decimal that reads back as it.  The numbers here have at most nine      *)
(* digits: float64 keeps such a decimal through strconv's shortest         *)
(* formatting unless it has digits below 1e-323, where the float64s lie    *)
(* 2^-1074 apart and the decimal is rounded to the nearest of them.        *)
(***************************************************************************)
EXTENDS Integers, Sequences, FiniteSets, TLC

VARIABLES
    v,              \* the value handed to MarshalJSON, or the syntax tree of
                    \* the text in data, or nil when data is any buffer
    data,           \* the buffer handed to UnmarshalJSON
    dec,            \* the json.Decoder: scanp, tokenState, tokenStack, err
    currentToken,   \* jsonDecoder.currentToken
    derr,           \* jsonDecoder.err
    lastErr,        \* the err of the latest decoder.Token() call
    frames,         \* the call stack of JSONunmarshal / asInterface array loops
    pc,             \* the position in UnmarshalJSON and its callees
    result,         \* *s, the receiver of UnmarshalJSON
    ret,            \* the error UnmarshalJSON returned
    out             \* MarshalJSON of the decoded result

vars == <<v, data, dec, currentToken, derr, lastErr, frames, pc, result, ret, out>>

---------------------------------------------------------------------------
(* Values *)

Val(t, p) == [t |-> t, v |-> p]
Nil == Val("nil", <<>>)
Str(s) == Val("string", s)
Float(sg, m, s) == Val("float64", <<sg, m, s>>)
Int64(n) == Val("int64", <<n>>)
Bool(b) == Val("bool", <<b>>)
Delim(c) == Val("Delim", <<c>>)
Slice(xs) == Val("slice", xs)
MapSlice(items) == Val("JSONMapSlice", items)
NilMapSlice == Val("nilJSONMapSlice", <<>>)
Chan == Val("chan", <<>>)
Number(s) == Val("number", s)
Item(k, x) == [Key |-> k, Value |-> x]
\* n is the json.Delim c
IsDelim(n, c) == n.t = "Delim" /\ n.v[1] = c
\* the zero JSONMapItem
ZeroItem == Item(<<>>, Nil)

---------------------------------------------------------------------------
(* Bytes and characters *)

\* the ASCII characters by code, Ascii[c + 1] the character of code c
Ascii == <<
    "0x00", "0x01", "0x02", "0x03", "0x04", "0x05", "0x06", "0x07",
    "0x08", "\t", "\n", "0x0b", "\f", "\r", "0x0e", "0x0f",
    "0x10", "0x11", "0x12", "0x13", "0x14", "0x15", "0x16", "0x17",
    "0x18", "0x19", "0x1a", "0x1b", "0x1c", "0x1d", "0x1e", "0x1f",
    " ", "!", "\"", "#", "$", "%", "&", "'",
    "(", ")", "*", "+", ",", "-", ".", "/",
    "0", "1", "2", "3", "4", "5", "6", "7",
    "8", "9", ":", ";", "<", "=", ">", "?",
    "@", "A", "B", "C", "D", "E", "F", "G",
    "H", "I", "J", "K", "L", "M", "N", "O",
    "P", "Q", "R", "S", "T", "U", "V", "W",
    "X", "Y", "Z", "[", "\\", "]", "^", "_",
    "0x60", "a", "b", "c", "d", "e", "f", "g",
    "h", "i", "j", "k", "l", "m", "n", "o",
    "p", "q", "r", "s", "t", "u", "v", "w",
    "x", "y", "z", "{", "|", "}", "~", "0x7f">>

\* the code of an ASCII character
CodeOf(c) == CHOOSE n \in 0..127 : Ascii[n + 1] = c

isSpace(c) == c \in {" ", "\t", "\r", "\n"}
Digit == {"0", "1", "2", "3", "4", "5", "6", "7", "8", "9"}
DigitVal(c) ==
    CASE c = "0" -> 0 [] c = "1" -> 1 [] c = "2" -> 2 [] c = "3" -> 3
      [] c = "4" -> 4 [] c = "5" -> 5 [] c = "6" -> 6 [] c = "7" -> 7
      [] c = "8" -> 8 [] c = "9" -> 9
DigitChar(n) ==
    CASE n = 0 -> "0" [] n = 1 -> "1" [] n = 2 -> "2" [] n = 3 -> "3"
      [] n = 4 -> "4" [] n = 5 -> "5" [] n = 6 -> "6" [] n = 7 -> "7"
      [] n = 8 -> "8" [] n = 9 -> "9"
HexDigit == Digit \cup {"a", "b", "c", "d", "e", "f", "A", "B", "C", "D", "E", "F"}
HexVal(c) ==
    CASE c \in Digit -> DigitVal(c)
      [] c \in {"a", "A"} -> 10 [] c \in {"b", "B"} -> 11 [] c \in {"c", "C"} -> 12
      [] c \in {"d", "D"} -> 13 [] c \in {"e", "E"} -> 14 [] c \in {"f", "F"} -> 15
HexChar(n) ==
    CASE n < 10 -> DigitChar(n)
      [] n = 10 -> "a" [] n = 11 -> "b" [] n = 12 -> "c"
      [] n = 13 -> "d" [] n = 14 -> "e" [] n = 15 -> "f"
HexUpper(n) ==
    CASE n < 10 -> DigitChar(n)
      [] n = 10 -> "A" [] n = 11 -> "B" [] n = 12 -> "C"
      [] n = 13 -> "D" [] n = 14 -> "E" [] n = 15 -> "F"
\* the bytes below 0x20, which a JSON string may not hold unescaped
Control == {Ascii[n + 1] : n \in 0..31}
\* the characters that may follow a backslash, and what they stand for
EscapeOf(c) ==
    CASE c = "\"" -> "\"" [] c = "\\" -> "\\" [] c = "/" -> "/"
      [] c = "b" -> "0x08" [] c = "f" -> "\f" [] c = "n" -> "\n"
      [] c = "r" -> "\r" [] c = "t" -> "\t"
Escapable == {"\"", "\\", "/", "b", "f", "n", "r", "t"}

\* the character of code point n: utf8.EncodeRune
RECURSIVE HexText(_, _)
HexText(n, width) ==
    IF width <= 0 /\ n = 0 THEN ""
    ELSE HexText(n \div 16, width - 1) \o HexUpper(n % 16)
Rune(n) == IF n < 128 THEN Ascii[n + 1] ELSE "U+" \o HexText(n, 4)

---------------------------------------------------------------------------
(* encoding/json: the scanner, as Decoder.readValue drives it on one value *)

ScanState(k, rest) == [k |-> k, rest |-> rest]
\* the scanner states in which an invented space ends the value (scanEnd)
EndsAtSpace == {"endValue", "0", "1", "dot0", "e0"}

\* scanner.step over buf from index i (1-based) in state st, up to the byte
\* that ends the value: [err, end] with end the index after the value
RECURSIVE scan(_, _, _)
scan(buf, i, st) ==
    IF i > Len(buf)
    THEN IF st.k \in EndsAtSpace
         THEN [err |-> "nil", end |-> i]
         ELSE [err |-> "ErrUnexpectedEOF", end |-> i]
    ELSE LET c == buf[i]
             bad == [err |-> "SyntaxError", end |-> i]
             ended == [err |-> "nil", end |-> i]
             go(k) == scan(buf, i + 1, ScanState(k, <<>>))
         IN CASE st.k = "endValue" -> ended
              [] st.k = "beginValue" ->
                    IF c = "\"" THEN go("inString")
                    ELSE IF c = "-" THEN go("neg")
                    ELSE IF c = "0" THEN go("0")
                    ELSE IF c \in Digit THEN go("1")
                    ELSE IF c = "t" THEN scan(buf, i + 1, ScanState("lit", <<"r", "u", "e">>))
                    ELSE IF c = "f" THEN scan(buf, i + 1, ScanState("lit", <<"a", "l", "s", "e">>))
                    ELSE IF c = "n" THEN scan(buf, i + 1, ScanState("lit", <<"u", "l", "l">>))
                    ELSE bad
              [] st.k = "lit" ->
                    IF c # Head(st.rest) THEN bad
                    ELSE IF Len(st.rest) = 1 THEN go("endValue")
                    ELSE scan(buf, i + 1, ScanState("lit", Tail(st.rest)))
              [] st.k = "inString" ->
                    IF c = "\"" THEN go("endValue")
                    ELSE IF c = "\\" THEN go("inStringEsc")
                    ELSE IF c \in Control THEN bad
                    ELSE go("inString")
              [] st.k = "inStringEsc" ->
                    IF c \in Escapable THEN go("inString")
                    ELSE IF c = "u" THEN scan(buf, i + 1, ScanState("inStringEscU", <<1, 2, 3, 4>>))
                    ELSE bad
              [] st.k = "inStringEscU" ->
                    IF c \notin HexDigit THEN bad
                    ELSE IF Len(st.rest) = 1 THEN go("inString")
                    ELSE scan(buf, i + 1, ScanState("inStringEscU", Tail(st.rest)))
              [] st.k = "neg" ->
                    IF c = "0" THEN go("0")
                    ELSE IF c \in Digit THEN go("1")
                    ELSE bad
              [] st.k = "1" ->
                    IF c \in Digit THEN go("1")
                    ELSE IF c = "." THEN go("dot")
                    ELSE IF c \in {"e", "E"} THEN go("e")
                    ELSE ended
              [] st.k = "0" ->
                    IF c = "." THEN go("dot")
                    ELSE IF c \in {"e", "E"} THEN go("e")
                    ELSE ended
              [] st.k = "dot" -> IF c \in Digit THEN go("dot0") ELSE bad
              [] st.k = "dot0" ->
                    IF c \in Digit THEN go("dot0")
                    ELSE IF c \in {"e", "E"} THEN go("e")
                    ELSE ended
              [] st.k = "e" ->
                    IF c \in {"+", "-"} THEN go("esign")
                    ELSE IF c \in Digit THEN go("e0")
                    ELSE bad
              [] st.k = "esign" -> IF c \in Digit THEN go("e0") ELSE bad
              [] st.k = "e0" -> IF c \in Digit THEN go("e0") ELSE ended

\* buf[from .. to], 1-based and inclusive
Slice1(buf, from, to) == [k \in 1..(to - from + 1) |-> buf[from + k - 1]]

\* getu4: the code of the \uXXXX escape at s[i..i+5], -1 if there is none
getu4(s, i) ==
    IF /\ i + 5 <= Len(s)
       /\ s[i] = "\\"
       /\ s[i + 1] = "u"
       /\ \A k \in 2..5 : s[i + k] \in HexDigit
    THEN 4096 * HexVal(s[i + 2]) + 256 * HexVal(s[i + 3]) + 16 * HexVal(s[i + 4]) + HexVal(s[i + 5])
    ELSE -1

\* unquote: the characters of a scanned string literal's inside; a surrogate
\* pair is one character, a surrogate without its pair the replacement
\* character
RECURSIVE unquote(_)
unquote(s) ==
    IF s = <<>> THEN <<>>
    ELSE IF Head(s) = "\\"
    THEN IF s[2] = "u"
         THEN LET rr == getu4(s, 1)
                  rr1 == getu4(s, 7)
              IN IF rr >= 55296 /\ rr < 57344
                 THEN IF rr < 56320 /\ rr1 >= 56320 /\ rr1 < 57344
                      THEN <<Rune(65536 + (rr - 55296) * 1024 + (rr1 - 56320))>>
                             \o unquote(SubSeq(s, 13, Len(s)))
                      ELSE <<Rune(65533)>> \o unquote(SubSeq(s, 7, Len(s)))
                 ELSE <<Rune(rr)>> \o unquote(SubSeq(s, 7, Len(s)))
         ELSE <<EscapeOf(s[2])>> \o unquote(SubSeq(s, 3, Len(s)))
    ELSE <<Head(s)>> \o unquote(Tail(s))

---------------------------------------------------------------------------
(* strconv *)

RECURSIVE Pow10(_)
Pow10(n) == IF n = 0 THEN 1 ELSE 10 * Pow10(n - 1)

\* the number a run of decimal digits writes
RECURSIVE DigitsVal(_)
DigitsVal(s) == IF s = <<>> THEN 0 ELSE 10 * DigitsVal(SubSeq(s, 1, Len(s) - 1)) + DigitVal(s[Len(s)])

\* strconv.FormatInt(n, 10)
RECURSIVE FormatInt(_)
FormatInt(n) ==
    IF n < 0 THEN <<"-">> \o FormatInt(0 - n)
    ELSE IF n < 10 THEN <<DigitChar(n)>>
    ELSE FormatInt(n \div 10) \o <<DigitChar(n % 10)>>

\* strconv.ParseInt(s, 10, 64) of a text FormatInt wrote
ParseInt(s) ==
    IF Head(s) = "-" THEN 0 - DigitsVal(Tail(s))
    ELSE IF Head(s) = "+" THEN DigitsVal(Tail(s))
    ELSE DigitsVal(s)

\* the float64 sg * m / 10^s, m without its trailing zeros
RECURSIVE Normal(_, _, _)
Normal(sg, m, s) ==
    IF m = 0 THEN Float(sg, 0, 0)
    ELSE IF m % 10 = 0 THEN Normal(sg, m \div 10, s - 1)
    ELSE Float(sg, m, s)

\* the infinity of sign sg
Inf(sg) == Float(sg, 0, -1)

\* the first index of s from i on holding a byte of set cs, Len(s) + 1 if none
RECURSIVE IndexIn(_, _, _)
IndexIn(s, cs, i) == IF i > Len(s) \/ s[i] \in cs THEN i ELSE IndexIn(s, cs, i + 1)

\* the exponent a number literal writes after its e: a sign and digits; an
\* exponent of more than four digits is as good as 9999
Exponent(s) ==
    LET neg == s # <<>> /\ Head(s) = "-"
        ds == IF s # <<>> /\ Head(s) \in {"+", "-"} THEN Tail(s) ELSE s
        nz == IndexIn(ds, Digit \ {"0"}, 1)
        sig == SubSeq(ds, nz, Len(ds))
        n == IF Len(sig) > 4 THEN 9999 ELSE DigitsVal(sig)
    IN IF neg THEN 0 - n ELSE n

\* A natural number beyond the machine word is the sequence of its digits to
\* the base 10000, the lowest first.
RECURSIVE big(_)
big(n) == IF n = 0 THEN <<>> ELSE <<n % 10000>> \o big(n \div 10000)

\* a without its leading zeros
RECURSIVE trim(_)
trim(a) == IF a # <<>> /\ a[Len(a)] = 0 THEN trim(SubSeq(a, 1, Len(a) - 1)) ELSE a

\* a + b + c
RECURSIVE addBig(_, _, _)
addBig(a, b, c) ==
    IF a = <<>> /\ b = <<>> THEN big(c)
    ELSE IF a = <<>> THEN addBig(<<0>>, b, c)
    ELSE IF b = <<>> THEN addBig(a, <<0>>, c)
    ELSE <<(a[1] + b[1] + c) % 10000>>
           \o addBig(Tail(a), Tail(b), (a[1] + b[1] + c) \div 10000)

\* a * d + c for a d of 10000 at most
RECURSIVE mulSmall(_, _, _)
mulSmall(a, d, c) ==
    IF a = <<>> THEN big(c)
    ELSE <<(a[1] * d + c) % 10000>> \o mulSmall(Tail(a), d, (a[1] * d + c) \div 10000)

\* a * b
RECURSIVE mulBig(_, _)
mulBig(a, b) ==
    IF b = <<>> THEN <<>>
    ELSE addBig(mulSmall(a, b[1], 0), <<0>> \o mulBig(a, Tail(b)), 0)

\* a * 10000^t
RECURSIVE shift(_, _)
shift(a, t) == IF t = 0 THEN a ELSE <<0>> \o shift(a, t - 1)

\* a * 10^t, t at most 8
scale(a, t) ==
    mulSmall(mulSmall(a, Pow10(IF t > 4 THEN 4 ELSE t), 0), Pow10(IF t > 4 THEN t - 4 ELSE 0), 0)

\* a < b for two numbers of Len(a) = Len(b) digits, compared from digit i down
RECURSIVE lessAt(_, _, _)
lessAt(a, b, i) ==
    IF i = 0 THEN FALSE
    ELSE IF a[i] # b[i] THEN a[i] < b[i]
    ELSE lessAt(a, b, i - 1)

lessTrimmed(a, b) == Len(a) < Len(b) \/ (Len(a) = Len(b) /\ lessAt(a, b, Len(a)))

\* a < b
less(a, b) == lessTrimmed(trim(a), trim(b))

\* half of float64's smallest step 2^-1074 = 4.9406564584124654...e-324, in
\* units of 1e-356: 2.47032822920623272088284396434110e32.  Between 0 and
\* 2.2250738585072014e-308 the float64s are the multiples of that step.
halfUlp ==
    <<4110, 9643, 2843, 2088, 2327, 9206, 2822, 4703, 2>>

\* n / 10^t < j * 2^-1075, both in units of 1e-324
beneath(n, t, j) ==
    ~less(scale(mulBig(halfUlp, big(j)), t), shift(big(n), 8))

\* the k in lo..hi whose float64 k * 2^-1074 is the nearest to m / 10^t units
\* of 1e-324: the least k with m / 10^t < (k + 1/2) * 2^-1074
RECURSIVE ulps(_, _, _, _)
ulps(m, t, lo, hi) ==
    IF lo = hi THEN lo
    ELSE IF beneath(m, t, 2 * ((lo + hi) \div 2) + 1) THEN ulps(m, t, lo, (lo + hi) \div 2)
    ELSE ulps(m, t, (lo + hi) \div 2 + 1, hi)

\* c units of 1e-324 read back as the float64 k * 2^-1074
inside(c, k) == ~beneath(c, 0, 2 * k - 1) /\ beneath(c, 0, 2 * k + 1)

\* the whole number of units of 1e-324 nearest to k * 2^-1074, from c up
RECURSIVE nearestFrom(_, _)
nearestFrom(c, k) == IF beneath(2 * c + 1, 0, 4 * k) THEN nearestFrom(c + 1, k) ELSE c

\* the shortest decimal that reads back as the float64 k * 2^-1074, k > 0, in
\* units of 1e-324: the multiple of the highest power of ten 10^p or less
\* that does, next to the xi units that were read, and the nearest one to the
\* float64 when several whole numbers do
RECURSIVE shortestAt(_, _, _, _)
shortestAt(xi, k, p, down) ==
    IF p = 0 THEN nearestFrom(IF xi < 3 THEN 0 ELSE xi - 3, k)
    ELSE IF inside(down, k) THEN down
    ELSE IF inside(down + Pow10(p), k) THEN down + Pow10(p)
    ELSE shortestAt(xi, k, p - 1, (xi \div Pow10(p - 1)) * Pow10(p - 1))

\* the float64 k * 2^-1074 of sign sg, as its shortest decimal
denormalOf(sg, xi, k) ==
    IF k = 0 THEN Float(sg, 0, 0)
    ELSE Normal(sg, shortestAt(xi, k, 9, 0), 324)

\* the float64 nearest to the decimal sg * m / 10^(324 + t), t >= 0
denormal(sg, m, t) == denormalOf(sg, m \div Pow10(t), ulps(m, t, 0, 536870912))

\* the float64 nearest to the decimal n of the given number of digits, which
\* lies in [10^(mag - 1), 10^mag): a number of 1.7976931348623158e308 or more
\* is the infinity with ErrRange, one of 2.47032822e-324 or less is zero, and
\* one with digits below 1e-323 is rounded to a multiple of 2^-1074; any
\* other decimal of at most nine digits is the shortest one of its float64
roundAt(n, digits, mag) ==
    IF n.v[2] = 0 THEN [f |-> n, err |-> "nil"]
    ELSE IF mag > 309 \/ (mag = 309 /\ n.v[2] * Pow10(9 - digits) > 179769313)
    THEN [f |-> Inf(n.v[1]), err |-> "ErrRange"]
    ELSE IF mag < -323 \/ (mag = -323 /\ n.v[2] * Pow10(9 - digits) <= 247032822)
    THEN [f |-> Float(n.v[1], 0, 0), err |-> "nil"]
    ELSE IF n.v[3] >= 324
    THEN [f |-> denormal(n.v[1], n.v[2], n.v[3] - 324), err |-> "nil"]
    ELSE [f |-> n, err |-> "nil"]

roundDigits(n, digits) == roundAt(n, digits, digits - n.v[3])

round(n) == roundDigits(n, Len(FormatInt(n.v[2])))

\* the decimal of sign sg with the mantissa mant, its point at index d, and
\* the exponent ex
decimalAt(sg, mant, d, ex) ==
    Normal(sg, DigitsVal(SubSeq(mant, 1, d - 1) \o SubSeq(mant, d + 1, Len(mant))),
           (IF d > Len(mant) THEN 0 ELSE Len(mant) - d) - ex)

decimal(sg, mant, ex) == decimalAt(sg, mant, IndexIn(mant, {"."}, 1), ex)

\* the decimal of sign sg that u writes, its e at index e
readAt(sg, u, e) ==
    decimal(sg, SubSeq(u, 1, e - 1),
            IF e > Len(u) THEN 0 ELSE Exponent(SubSeq(u, e + 1, Len(u))))

readUnsigned(sg, u) == readAt(sg, u, IndexIn(u, {"e", "E"}, 1))

\* strconv.ParseFloat(s, 64) of a number literal or of FormatInt's text:
\* [f, err]
ParseFloat(s) ==
    round(readUnsigned(IF s # <<>> /\ Head(s) = "-" THEN -1 ELSE 1,
                       IF s # <<>> /\ Head(s) \in {"+", "-"} THEN Tail(s) ELSE s))

\* convertNumber: the float64, or an UnmarshalTypeError and nothing stored
convertNumber(p) ==
    IF p.err # "nil"
    THEN [val |-> Nil, err |-> "UnmarshalTypeError"]
    ELSE [val |-> p.f, err |-> "nil"]

\* decodeState.unmarshal into an `any`: the Go value of one scanned scalar,
\* [val, err]
literalValue(s) ==
    CASE Head(s) = "\"" -> [val |-> Str(unquote(SubSeq(s, 2, Len(s) - 1))), err |-> "nil"]
      [] Head(s) = "t" -> [val |-> Bool(TRUE), err |-> "nil"]
      [] Head(s) = "f" -> [val |-> Bool(FALSE), err |-> "nil"]
      [] Head(s) = "n" -> [val |-> Nil, err |-> "nil"]
      [] OTHER -> convertNumber(ParseFloat(s))
---------------------------------------------------------------------------
(* encoding/json: Decoder.Token, Decoder.More, Decoder.InputOffset *)

\* Decoder.peek: the offset (0-based) of the next byte that is no space,
\* -1 at the end of the input (io.EOF); scanp itself moves only on a hit
RECURSIVE peek(_, _)
peek(buf, scanp) ==
    IF scanp >= Len(buf) THEN -1
    ELSE IF isSpace(buf[scanp + 1]) THEN peek(buf, scanp + 1)
    ELSE scanp

NewDecoder == [scanp |-> 0, tokenState |-> "tokenTopValue", tokenStack |-> <<>>, err |-> "nil"]

tokenValueAllowed(d) ==
    d.tokenState \in {"tokenTopValue", "tokenArrayStart", "tokenArrayValue", "tokenObjectValue"}

tokenValueEnd(st) ==
    CASE st \in {"tokenArrayStart", "tokenArrayValue"} -> "tokenArrayComma"
      [] st = "tokenObjectValue" -> "tokenObjectComma"
      [] OTHER -> st

TokRes(tok, err, d) == [tok |-> tok, err |-> err, dec |-> d]

\* Decode's return after unmarshal gave x, the decoder being d
decoded(x, d) == TokRes(x.val, x.err, d)

\* Decoder.Decode of one scalar at d.scanp (which holds a byte that is no space),
\* as Token calls it with a value allowed: the sticky d.err first, then readValue
\* (a scan error or a short read is kept in d.err and consumes nothing), then
\* unmarshal of the bytes read, whose error is returned with the value consumed
\* and is not kept in d.err
Decode(buf, d) ==
    IF d.err # "nil" THEN TokRes(Nil, d.err, d)
    ELSE LET r == scan(buf, d.scanp + 1, ScanState("beginValue", <<>>))
         IN IF r.err # "nil"
            THEN TokRes(Nil, r.err, [d EXCEPT !.err = r.err])
            ELSE decoded(literalValue(Slice1(buf, d.scanp + 1, r.end - 1)),
                         [d EXCEPT !.scanp = r.end - 1,
                                   !.tokenState = tokenValueEnd(d.tokenState)])

RECURSIVE Token(_, _)
Token(buf, d0) ==
    LET p == peek(buf, d0.scanp)
    IN IF p < 0 THEN TokRes(Nil, "EOF", d0)
       ELSE
       LET d == [d0 EXCEPT !.scanp = p]
           c == buf[p + 1]
           tokenError == TokRes(Nil, "SyntaxError", d)
           open(st) == TokRes(Delim(c), "nil",
                          [d EXCEPT !.scanp = p + 1,
                                    !.tokenStack = Append(d.tokenStack, d.tokenState),
                                    !.tokenState = st])
           close == TokRes(Delim(c), "nil",
                          [d EXCEPT !.scanp = p + 1,
                                    !.tokenStack = SubSeq(d.tokenStack, 1, Len(d.tokenStack) - 1),
                                    !.tokenState = tokenValueEnd(d.tokenStack[Len(d.tokenStack)])])
       IN CASE c = "[" -> IF tokenValueAllowed(d) THEN open("tokenArrayStart") ELSE tokenError
            [] c = "]" -> IF d.tokenState \in {"tokenArrayStart", "tokenArrayComma"}
                          THEN close ELSE tokenError
            [] c = "{" -> IF tokenValueAllowed(d) THEN open("tokenObjectStart") ELSE tokenError
            [] c = "}" -> IF d.tokenState \in {"tokenObjectStart", "tokenObjectComma"}
                          THEN close ELSE tokenError
            [] c = ":" -> IF d.tokenState = "tokenObjectColon"
                          THEN Token(buf, [d EXCEPT !.scanp = p + 1, !.tokenState = "tokenObjectValue"])
                          ELSE tokenError
            [] c = "," -> IF d.tokenState = "tokenArrayComma"
                          THEN Token(buf, [d EXCEPT !.scanp = p + 1, !.tokenState = "tokenArrayValue"])
                          ELSE IF d.tokenState = "tokenObjectComma"
                          THEN Token(buf, [d EXCEPT !.scanp = p + 1, !.tokenState = "tokenObjectKey"])
                          ELSE tokenError
            [] c = "\"" /\ d.tokenState \in {"tokenObjectStart", "tokenObjectKey"} ->
                          \* an object key: Decode into a string with the state
                          \* set to tokenTopValue, restored when Decode fails
                          LET r == Decode(buf, [d EXCEPT !.tokenState = "tokenTopValue"])
                          IN IF r.err # "nil"
                             THEN TokRes(Nil, r.err, [r.dec EXCEPT !.tokenState = d.tokenState])
                             ELSE TokRes(r.tok, "nil", [r.dec EXCEPT !.tokenState = "tokenObjectColon"])
            [] OTHER -> IF tokenValueAllowed(d) THEN Decode(buf, d) ELSE tokenError

More(buf, d) ==
    LET p == peek(buf, d.scanp)
    IN p >= 0 /\ buf[p + 1] \notin {"]", "}"}

\* Decoder.peek as More runs it: it moves scanp to the byte it found
AfterPeek(buf, d) ==
    LET p == peek(buf, d.scanp)
    IN IF p < 0 THEN d ELSE [d EXCEPT !.scanp = p]

InputOffset(d) == d.scanp


---------------------------------------------------------------------------
(* The encoder: jsonBuffer, JSONMapSlice.JSONmarshal, JSONMapItem.JSONmarshal *)

\* a jsonBuffer; exited says that log.Fatal has ended the process
jsonBuffer == [buffer |-> <<>>, err |-> "nil", exited |-> FALSE]

appendRawByte(jb, b) == [jb EXCEPT !.buffer = Append(@, b)]
appendByteSlice(jb, b) == [jb EXCEPT !.buffer = @ \o b]
appendString(jb, b) == [jb EXCEPT !.buffer = @ \o <<"\"">> \o b \o <<"\"">>]

Bytes(str) ==
    CASE str = "null" -> <<"n", "u", "l", "l">>
      [] str = "true" -> <<"t", "r", "u", "e">>
      [] str = "false" -> <<"f", "a", "l", "s", "e">>

RECURSIVE Zeros(_)
Zeros(n) == IF n <= 0 THEN <<>> ELSE <<"0">> \o Zeros(n - 1)

\* the scalar writer's float64 sg * m / 10^s: the shortest decimal, with an
\* exponent below 1e-6 and from 1e21 on
FormatFloat(sg, m, s) ==
    LET ds == FormatInt(m)
        mag == Len(ds) - s
        sign == IF sg < 0 THEN <<"-">> ELSE <<>>
        padded == Zeros(s + 1 - Len(ds)) \o ds
    IN sign \o
       (IF m = 0 THEN <<"0">>
        ELSE IF mag < -5 \/ mag > 21
        THEN <<Head(ds)>> \o (IF Len(ds) > 1 THEN <<".">> \o Tail(ds) ELSE <<>>)
               \o <<"e", IF mag < 1 THEN "-" ELSE "+">>
               \o FormatInt(IF mag < 1 THEN 1 - mag ELSE mag - 1)
        ELSE IF s <= 0 THEN ds \o Zeros(0 - s)
        ELSE SubSeq(padded, 1, Len(padded) - s) \o <<".">>
               \o SubSeq(padded, Len(padded) - s + 1, Len(padded)))

\* the scalar writer's string escaping
EscapeChar(c) ==
    CASE c = "\"" -> <<"\\", "\"">>
      [] c = "\\" -> <<"\\", "\\">>
      [] c = "\n" -> <<"\\", "n">>
      [] c = "\r" -> <<"\\", "r">>
      [] c = "\t" -> <<"\\", "t">>
      [] c \in Control \ {"\n", "\r", "\t"} ->
            <<"\\", "u", "0", "0", HexChar(CodeOf(c) \div 16), HexChar(CodeOf(c) % 16)>>
      [] OTHER -> <<c>>

RECURSIVE EscapeString(_)
EscapeString(s) == IF s = <<>> THEN <<>> ELSE EscapeChar(Head(s)) \o EscapeString(Tail(s))

\* what WriteJSON hands back: the bytes and the error, or the process ended
\* inside the call
WriteRes(b, e, x) == [jsonRes |-> b, err |-> e, exited |-> x]
Failed(r) == r.exited \/ r.err # "nil"

\* JSONMapItem.JSONmarshal after its call of WriteJSON, which gave r: log.Fatal on
\* an error, the bytes appended otherwise
afterWriteJSON(jb, r) ==
    IF Failed(r) THEN [jb EXCEPT !.exited = TRUE] ELSE appendByteSlice(jb, r.jsonRes)

\* the closing brace, unless the process has ended
closeObject(jb) == IF jb.exited THEN jb ELSE appendRawByte(jb, "}")

\* w.buffer and w.err as MarshalJSON returns them
returned(w) == WriteRes(w.buffer, w.err, w.exited)

\* the bytes of a []any from those of its elements
closeArray(r) == IF Failed(r) THEN r ELSE WriteRes(<<"[">> \o r.jsonRes \o <<"]">>, "nil", FALSE)

\* the bytes of the elements from i on: those of element i, h, a comma before
\* them unless i is the first, and those of the elements after it, t
joinElements(i, h, t) ==
    IF Failed(h) THEN WriteRes(<<>>, h.err, h.exited)
    ELSE IF Failed(t) THEN t
    ELSE WriteRes((IF i > 1 THEN <<",">> ELSE <<>>) \o h.jsonRes \o t.jsonRes, "nil", FALSE)

RECURSIVE WriteJSON(_)
RECURSIVE JSONmarshal(_, _)
RECURSIVE JSONmarshalNoNil(_, _)
RECURSIVE marshalItems(_, _, _)
RECURSIVE writeElements(_, _)

\* JSONMapItem.JSONmarshal: the key between two quote bytes, as it is, a colon
\* and the bytes of WriteJSON; log.Fatal when WriteJSON fails
JSONMapItemJSONmarshal(jb, item) ==
    IF jb.exited THEN jb
    ELSE afterWriteJSON(appendRawByte(appendString(jb, item.Key), ":"), WriteJSON(item.Value))

\* s[i..] of JSONMapSlice.JSONmarshal's loop, each item after a comma
marshalItems(jb, items, i) ==
    IF i > Len(items) \/ jb.exited THEN jb
    ELSE marshalItems(JSONMapItemJSONmarshal(appendRawByte(jb, ","), items[i]), items, i + 1)

\* a nil slice written as an empty object
JSONmarshalNoNil(jb, s) ==
    IF s.v = <<>> THEN appendRawByte(appendRawByte(jb, "{"), "}")
    ELSE closeObject(marshalItems(JSONMapItemJSONmarshal(appendRawByte(jb, "{"), s.v[1]), s.v, 2))

\* JSONMapSlice.JSONmarshal
JSONmarshal(jb, s) ==
    IF s.t = "nilJSONMapSlice" THEN appendByteSlice(jb, Bytes("null"))
    ELSE IF s.v = <<>> THEN appendRawByte(appendRawByte(jb, "{"), "}")
    ELSE closeObject(marshalItems(JSONMapItemJSONmarshal(appendRawByte(jb, "{"), s.v[1]), s.v, 2))

\* JSONMapSlice.MarshalJSON: w.buffer and w.err, unless the process has ended
MarshalJSON(s) == JSONmarshal(jsonBuffer, s)

\* the elements xs[i..] of a []any, each after a comma but the first; the
\* elements after one that failed are not written
writeElements(xs, i) ==
    IF i > Len(xs) THEN WriteRes(<<>>, "nil", FALSE)
    ELSE joinElements(i, WriteJSON(xs[i]), writeElements(xs, i + 1))

\* WriteJSON: objects through MarshalJSON, everything else through the standard
\* JSON writer, which fails on a value it has no JSON for
WriteJSON(x) ==
    CASE x.t \in {"JSONMapSlice", "nilJSONMapSlice"} -> returned(MarshalJSON(x))
      [] x.t = "slice" -> closeArray(writeElements(x.v, 1))
      [] x.t = "string" -> WriteRes(<<"\"">> \o EscapeString(x.v) \o <<"\"">>, "nil", FALSE)
      [] x.t = "float64" ->
            IF x.v[3] < 0 /\ x.v[2] = 0 THEN WriteRes(<<>>, "UnsupportedValueError", FALSE)
            ELSE WriteRes(FormatFloat(x.v[1], x.v[2], x.v[3]), "nil", FALSE)
      [] x.t = "int64" -> WriteRes(FormatInt(x.v[1]), "nil", FALSE)
      [] x.t = "bool" -> WriteRes(IF x.v[1] THEN Bytes("true") ELSE Bytes("false"), "nil", FALSE)
      [] x.t = "nil" -> WriteRes(Bytes("null"), "nil", FALSE)
      [] x.t = "chan" -> WriteRes(<<>>, "UnsupportedTypeError", FALSE)
---------------------------------------------------------------------------
(* Bounds *)

\* the most pieces of a buffer after its opening brace, the most entries of an
\* object handed to the encoder or written in a text, and the most entries of
\* a JSONunmarshal's result that memory holds
MaxLen == 4
MaxWidth == 2
MaxItems == 3

---------------------------------------------------------------------------
(* The decoder: UnmarshalJSON, JSONunmarshal, UnmarshalCustomJSON, asInterface *)

ObjFrame == [kind |-> "obj", items |-> <<>>, key |-> <<>>]
ArrFrame == [kind |-> "arr", items |-> <<>>, key |-> <<>>]

Top(fs) == fs[Len(fs)]
Pop(fs) == SubSeq(fs, 1, Len(fs) - 1)
SetTop(fs, f) == [fs EXCEPT ![Len(fs)] = f]

\* result = append(result, mi) in the JSONunmarshal on top of the call stack
\* fs; a result of MaxItems entries cannot grow, the runtime is out of memory
appendItem(fs, mi) ==
    LET f == Top(fs)
    IN IF Len(f.items) >= MaxItems
       THEN [frames |-> fs, pc |-> "out of memory"]
       ELSE [frames |-> SetTop(fs, [f EXCEPT !.items = Append(f.items, mi), !.key = <<>>]),
             pc |-> "JSONunmarshal"]

\* asInterface on a scalar token
asInterfaceScalar(n) ==
    CASE n.t = "Delim" -> Nil
      [] n.t = "string" -> n
      [] n.t = "int64" ->
            LET strN == FormatInt(n.v[1])
            IN IF \E i \in 1..Len(strN) : strN[i] = "."
               THEN ParseFloat(strN).f
               ELSE Int64(ParseInt(strN))
      [] OTHER -> n

\* the value x handed back to the caller on top of the call stack fs: an item's
\* UnmarshalCustomJSON (Key and Value set, the item appended by JSONunmarshal)
\* or an array loop of asInterface
Deliver(fs, x) ==
    LET f == Top(fs)
    IN IF f.kind = "obj"
       THEN appendItem(fs, Item(f.key, x))
       ELSE [frames |-> SetTop(fs, [f EXCEPT !.items = Append(f.items, x)]),
             pc |-> "asInterfaceArray"]

\* asInterface on the token n, called with the call stack fs
asInterface(fs, n) ==
    IF IsDelim(n, "{") THEN [frames |-> Append(fs, ObjFrame), pc |-> "JSONunmarshal"]
    ELSE IF IsDelim(n, "[") THEN [frames |-> Append(fs, ArrFrame), pc |-> "asInterfaceArray"]
    ELSE Deliver(fs, asInterfaceScalar(n))

\* UnmarshalCustomJSON returned early: the zero item is appended
SkipItem(fs) == appendItem(fs, ZeroItem)

UnmarshalJSON ==
    /\ pc = "UnmarshalJSON"
    /\ LET r == Token(data, NewDecoder)
       IN /\ dec' = r.dec
          /\ lastErr' = r.err
          /\ IF r.err = "EOF"
             THEN /\ ret' = "nil"
                  /\ pc' = "returned"
                  /\ frames' = frames
             ELSE IF r.tok.t # "Delim"
             THEN /\ ret' = "expected delimeter"
                  /\ pc' = "returned"
                  /\ frames' = frames
             ELSE IF ~IsDelim(r.tok, "{")
             THEN /\ ret' = "expected '{' delimeter"
                  /\ pc' = "returned"
                  /\ frames' = frames
             ELSE /\ ret' = ret
                  /\ pc' = "JSONunmarshal"
                  /\ frames' = <<ObjFrame>>
    /\ UNCHANGED <<v, data, currentToken, derr, result, out>>

\* a loop that only the closing brace ends
LoopEndsOnBraceOnly(r) == IsDelim(r.tok, "}")

\* the two breaks of JSONunmarshal's loop: the closing brace, io.EOF
LoopEnds(r) == IsDelim(r.tok, "}") \/ r.err = "EOF"

\* one turn of JSONunmarshal's loop up to the call of UnmarshalCustomJSON
JSONunmarshal ==
    /\ pc = "JSONunmarshal"
    /\ LET r == Token(data, dec)
           items == Top(frames).items
       IN /\ dec' = r.dec
          /\ lastErr' = r.err
          /\ IF LoopEnds(r)
             THEN IF Len(frames) = 1
                  THEN /\ result' = MapSlice(items)
                       /\ ret' = derr
                       /\ frames' = <<>>
                       /\ pc' = "returned"
                       /\ currentToken' = currentToken
                  ELSE LET d == Deliver(Pop(frames), MapSlice(items))
                       IN /\ frames' = d.frames
                          /\ pc' = d.pc
                          /\ UNCHANGED <<result, ret, currentToken>>
             ELSE /\ currentToken' = r.tok
                  /\ pc' = "UnmarshalCustomJSON"
                  /\ UNCHANGED <<result, ret, frames>>
    /\ UNCHANGED <<v, data, derr, out>>

\* UnmarshalCustomJSON and, for a scalar value, the asInterface it calls
UnmarshalCustomJSON ==
    /\ pc = "UnmarshalCustomJSON"
    /\ LET offset == InputOffset(dec)
       IN IF offset >= Len(data)
          THEN \* data[offset]: index out of range
               /\ pc' = "panic"
               /\ UNCHANGED <<dec, lastErr, currentToken, derr, frames>>
          ELSE IF data[offset + 1] # ":"
          THEN /\ frames' = SkipItem(frames).frames
               /\ pc' = SkipItem(frames).pc
               /\ UNCHANGED <<dec, lastErr, currentToken, derr>>
          ELSE IF currentToken.t # "string"
          THEN \* d.currentToken.(string): interface conversion
               /\ pc' = "panic"
               /\ UNCHANGED <<dec, lastErr, currentToken, derr, frames>>
          ELSE LET r == Token(data, dec)
                   key == currentToken.v
               IN /\ dec' = r.dec
                  /\ lastErr' = r.err
                  /\ IF r.err # "nil"
                     THEN /\ derr' = r.err
                          /\ frames' = SkipItem(frames).frames
                          /\ pc' = SkipItem(frames).pc
                          /\ currentToken' = currentToken
                     ELSE LET a == asInterface(SetTop(frames, [Top(frames) EXCEPT !.key = key]), r.tok)
                          IN /\ currentToken' = r.tok
                             /\ derr' = derr
                             /\ frames' = a.frames
                             /\ pc' = a.pc
    /\ UNCHANGED <<v, data, result, ret, out>>

\* one turn of asInterface's array loop: More() holds, an element is read
asInterfaceElement ==
    /\ pc = "asInterfaceArray"
    /\ More(data, dec)
    /\ LET r == Token(data, AfterPeek(data, dec))
       IN /\ dec' = r.dec
          /\ lastErr' = r.err
          /\ IF r.err # "nil"
             THEN LET d == Deliver(Pop(frames), Nil)
                  IN /\ derr' = r.err
                     /\ frames' = d.frames
                     /\ pc' = d.pc
                     /\ currentToken' = currentToken
             ELSE LET a == asInterface(frames, r.tok)
                  IN /\ currentToken' = r.tok
                     /\ derr' = derr
                     /\ frames' = a.frames
                     /\ pc' = a.pc
    /\ UNCHANGED <<v, data, result, ret, out>>

\* the end of asInterface's array loop: More() fails, the closing token is read
asInterfaceAdvance ==
    /\ pc = "asInterfaceArray"
    /\ ~More(data, dec)
    /\ LET r == Token(data, AfterPeek(data, dec))
           d == Deliver(Pop(frames), IF r.err # "nil" THEN Nil ELSE Slice(Top(frames).items))
       IN /\ dec' = r.dec
          /\ lastErr' = r.err
          /\ derr' = IF r.err # "nil" THEN r.err ELSE derr
          /\ frames' = d.frames
          /\ pc' = d.pc
    /\ UNCHANGED <<v, data, currentToken, result, ret, out>>

\* the caller encodes what a successful decode gave it
Reencode ==
    /\ pc = "returned"
    /\ ret = "nil"
    /\ LET w == MarshalJSON(result)
       IN IF w.exited
          THEN /\ pc' = "log.Fatal"
               /\ out' = out
          ELSE /\ pc' = "done"
               /\ out' = w.buffer
    /\ UNCHANGED <<v, data, dec, currentToken, derr, lastErr, frames, result, ret>>

\* the caller encodes v and decodes the bytes, unless log.Fatal ends the
\* process inside MarshalJSON
Encode ==
    /\ pc = "MarshalJSON"
    /\ LET w == MarshalJSON(v)
       IN IF w.exited
          THEN /\ pc' = "log.Fatal"
               /\ data' = data
          ELSE /\ pc' = "UnmarshalJSON"
               /\ data' = w.buffer
    /\ UNCHANGED <<v, dec, currentToken, derr, lastErr, frames, result, ret, out>>

Decoding == UnmarshalJSON \/ JSONunmarshal \/ UnmarshalCustomJSON
              \/ asInterfaceElement \/ asInterfaceAdvance
---------------------------------------------------------------------------
(* The inputs *)

\* the pieces buffers are put together from: the structural bytes, a space,
\* the number 1, the string literal "" and a lone quote
Pieces == {<<"{">>, <<"}">>, <<"[">>, <<"]">>, <<":">>, <<",">>, <<" ">>, <<"1">>,
           <<"\"", "\"">>, <<"\"">>}

RECURSIVE Flatten(_)
Flatten(w) == IF w = <<>> THEN <<>> ELSE Head(w) \o Flatten(Tail(w))

\* literals beyond the pieces: signed numbers, exponents, a number out of
\* float64's range, one below it and one between two of its smallest
\* numbers, escapes, a surrogate pair, a surrogate alone, a control byte
Literals ==
    {<<"-", "1">>, <<"-", "0">>, <<"-", "1", ".", "5">>, <<"-">>,
     <<"1", "e", "+", "1">>, <<"1", "E", "-", "2">>, <<"1", "e", "+">>,
     <<"1", "e", "9", "9", "9">>, <<"1", "e", "-", "9", "9", "9">>,
     <<"3", "e", "-", "3", "2", "4">>,
     <<"\"", "\\", "u", "0", "0", "4", "1", "\"">>,
     <<"\"", "\\", "u", "d", "8", "3", "d", "\\", "u", "d", "e", "0", "0", "\"">>,
     <<"\"", "\\", "u", "d", "8", "3", "d", "\"">>,
     <<"\"", "\\", "b", "\"">>,
     <<"\"", "0x01", "\"">>}

\* what stands before and after a literal
Before == {<<"{">>, <<"{", "\"", "\"", ":">>, <<"{", "\"", "\"", ":", "[">>}
After == {<<>>, <<"}">>, <<"]", "}">>, <<":", "1", "}">>, <<",">>}

\* every buffer of at most one piece, every buffer that opens an object, and
\* the literals in key position, in value position and in an array
Buffers ==
    {<<>>} \cup Pieces
      \cup UNION {{<<"{">> \o Flatten(w) : w \in [1..n -> Pieces]} : n \in 0..MaxLen}
      \cup {b \o l \o a : b \in Before, l \in Literals, a \in After}

Idle ==
    /\ dec = NewDecoder
    /\ currentToken = Nil
    /\ derr = "nil"
    /\ lastErr = "nil"
    /\ frames = <<>>
    /\ result = NilMapSlice
    /\ ret = "nil"
    /\ out = <<>>

Init ==
    /\ v = Nil
    /\ data \in Buffers
    /\ pc = "UnmarshalJSON"
    /\ Idle

Next == Decoding \/ Reencode

Spec == Init /\ [][Next]_vars

---------------------------------------------------------------------------
(* JSON texts and values *)

RECURSIVE Standard(_)
RECURSIVE standardItems(_, _)
RECURSIVE standardElements(_, _)

\* the compact JSON text of x with every key and string escaped by the JSON
\* string rules, a number literal of a syntax tree as it is written
Standard(x) ==
    CASE x.t = "JSONMapSlice" -> <<"{">> \o standardItems(x.v, 1) \o <<"}">>
      [] x.t = "slice" -> <<"[">> \o standardElements(x.v, 1) \o <<"]">>
      [] x.t = "number" -> x.v
      [] OTHER -> WriteJSON(x).jsonRes

standardItems(items, i) ==
    IF i > Len(items) THEN <<>>
    ELSE (IF i > 1 THEN <<",">> ELSE <<>>)
           \o <<"\"">> \o EscapeString(items[i].Key) \o <<"\"", ":">>
           \o Standard(items[i].Value) \o standardItems(items, i + 1)

standardElements(xs, i) ==
    IF i > Len(xs) THEN <<>>
    ELSE (IF i > 1 THEN <<",">> ELSE <<>>) \o Standard(xs[i]) \o standardElements(xs, i + 1)

\* the variant of the value model a scalar belongs to; a number literal is an
\* Integer unless it has a fractional part
Variant(x) ==
    CASE x.t = "string" -> "Text"
      [] x.t = "float64" -> "Float"
      [] x.t = "int64" -> "Integer"
      [] x.t = "number" -> IF \E i \in 1..Len(x.v) : x.v[i] = "." THEN "Float" ELSE "Integer"
      [] x.t = "chan" -> "Unsupported"
      [] x.t = "bool" -> "Bool"
      [] OTHER -> "Null"

RECURSIVE Outline(_, _)
RECURSIVE outlineItems(_, _, _)
RECURSIVE outlineElements(_, _, _)

\* x with its scalars left out (variants = FALSE) or replaced by their variant:
\* the keys of every object in order, each with its length, at every depth
Outline(x, variants) ==
    CASE x.t = "JSONMapSlice" -> <<"{">> \o outlineItems(x.v, 1, variants) \o <<"}">>
      [] x.t = "slice" -> <<"[">> \o outlineElements(x.v, 1, variants) \o <<"]">>
      [] OTHER -> IF variants THEN <<Variant(x)>> ELSE <<"_">>

outlineItems(items, i, variants) ==
    IF i > Len(items) THEN <<>>
    ELSE <<"key">> \o FormatInt(Len(items[i].Key)) \o <<":">> \o items[i].Key
           \o Outline(items[i].Value, variants) \o <<";">>
           \o outlineItems(items, i + 1, variants)

outlineElements(xs, i, variants) ==
    IF i > Len(xs) THEN <<>>
    ELSE Outline(xs[i], variants) \o <<";">> \o outlineElements(xs, i + 1, variants)

Chars(str) ==
    CASE str = "42" -> <<"4", "2">>
      [] str = "42.0" -> <<"4", "2", ".", "0">>
      [] str = "2.5" -> <<"2", ".", "5">>
      [] str = "1" -> <<"1">>
      [] str = "2" -> <<"2">>
      [] str = "3" -> <<"3">>
      [] str = "-7" -> <<"-", "7">>
      [] str = "-2.5" -> <<"-", "2", ".", "5">>

\* the keys of the texts: a, b and a key that holds a quote
TextKeys == 1..3
TextKey(i) == CASE i = 1 -> <<"a">> [] i = 2 -> <<"b">> [] i = 3 -> <<"\"">>

\* the values of the texts
TextValues == 1..11
TextValue(i) ==
    CASE i = 1 -> Number(Chars("42"))
      [] i = 2 -> Number(Chars("42.0"))
      [] i = 3 -> Number(Chars("-2.5"))
      [] i = 4 -> Str(<<"x", "0x08", "U+00E9", "\"">>)
      [] i = 5 -> Bool(TRUE)
      [] i = 6 -> Nil
      [] i = 7 -> MapSlice(<<Item(<<"y">>, Number(Chars("-7"))), Item(<<"x">>, Number(Chars("3")))>>)
      [] i = 8 -> MapSlice(<<>>)
      [] i = 9 -> Slice(<<Number(Chars("1")), Number(Chars("2.5")), Str(<<"x">>), Bool(TRUE), Nil>>)
      [] i = 10 -> Slice(<<MapSlice(<<Item(<<"b">>, Number(Chars("1")))>>), Slice(<<>>)>>)
      [] i = 11 -> MapSlice(<<Item(<<"a">>, Number(Chars("1"))), Item(<<"a">>, Number(Chars("2")))>>)

\* the keys handed to the encoder: a, b, a quote, a backslash before a quote,
\* and a control character
ValueKeys == 1..5
ValueKey(i) ==
    CASE i = 1 -> <<"a">> [] i = 2 -> <<"b">> [] i = 3 -> <<"\"">> [] i = 4 -> <<"\\", "\"">>
      [] i = 5 -> <<"0x08">>

\* the values handed to the encoder
Values == 1..5
Value(i) ==
    CASE i = 1 -> Int64(-42)
      [] i = 2 -> Slice(<<Float(1, 25, 1), Float(1, 5, 324)>>)
      [] i = 3 -> MapSlice(<<Item(<<"y">>, Int64(2)), Item(<<"x">>, Float(-1, 3, -21))>>)
      [] i = 4 -> Slice(<<Int64(1), Chan>>)
      [] i = 5 -> Slice(<<Int64(1), Float(-1, 25, 8), Str(<<"x", "\"", "\f">>), Bool(TRUE), Nil,
                          MapSlice(<<>>),
                          MapSlice(<<Item(<<"b">>, Int64(1)), Item(<<"b">>, Int64(2))>>)>>)

\* v is the syntax tree of a JSON object text, data the text
InitText ==
    /\ \E n \in 0..MaxWidth : \E ks \in [1..n -> TextKeys] : \E xs \in [1..n -> TextValues] :
          v = MapSlice([j \in 1..n |-> Item(TextKey(ks[j]), TextValue(xs[j]))])
    /\ data = Standard(v)
    /\ pc = "UnmarshalJSON"
    /\ Idle

SpecText == InitText /\ [][Next]_vars

\* v is an ordered object, nil or of at most MaxWidth entries
InitValue ==
    /\ \/ v = NilMapSlice
       \/ \E n \in 0..MaxWidth : \E ks \in [1..n -> ValueKeys] : \E xs \in [1..n -> Values] :
             v = MapSlice([j \in 1..n |-> Item(ValueKey(ks[j]), Value(xs[j]))])
    /\ data = <<>>
    /\ pc = "MarshalJSON"
    /\ Idle

NextValue == Encode \/ Decoding \/ Reencode

SpecValue == InitValue /\ [][NextValue]_vars

---------------------------------------------------------------------------
(* Properties *)

Returned == pc \in {"returned", "done"}
SameText(a, b) == Standard(a) = Standard(b)

\* With the decoder as d, a turn of JSONunmarshal's loop changes nothing but
\* the entries collected: its read fails and leaves the decoder as it is, the
\* loop does not end, and UnmarshalCustomJSON returns early
RunawayAt(d) ==
    LET r == Token(data, d)
    IN /\ ~LoopEnds(r)
       /\ r.dec = d
       /\ InputOffset(d) < Len(data)
       /\ data[InputOffset(d) + 1] # ":"

Runaway == pc = "JSONunmarshal" /\ RunawayAt(dec)

\* From such a turn on the decoder stays as it is and the loop goes on, until
\* memory is used up: UnmarshalJSON does not return.
RunawayNeverEnds ==
    [][/\ Runaway => (pc' = "UnmarshalCustomJSON" /\ dec' = dec)
       /\ (pc = "UnmarshalCustomJSON" /\ RunawayAt(dec))
             => (dec' = dec /\ pc' \in {"JSONunmarshal", "out of memory"})]_vars

\* Memory is used up in such a loop only: MaxItems cuts no run that returns.
OutOfMemoryIsRunaway == pc = "out of memory" => RunawayAt(dec)

\* C1: for every non-nil ordered object v, decoding the bytes MarshalJSON(v)
\* returns no error and an object with the entry count and the keys of v, in
\* v's order, at every depth.
C1_RoundTrip ==
    (Returned /\ v.t = "JSONMapSlice")
        => (ret = "nil" /\ Outline(result, FALSE) = Outline(v, FALSE))

\* C2: decoding a valid JSON object text without whitespace returns no error
\* and one entry per pair of the text, keys in the text's order at every
\* depth, and encoding the result writes those keys in that order.
C2_OrderPreserved ==
    /\ Returned => (ret = "nil" /\ Outline(result, FALSE) = Outline(v, FALSE))
    /\ pc = "done" => out = Standard(result)

\* C3: a read of the tokenizer that fails with a syntax error ends the decode
\* at once, with an error returned.
C3_FailFast ==
    [][lastErr' = "SyntaxError" => (pc' = "returned" /\ ret' # "nil")]_vars

\* C4: MarshalJSON writes every key as a JSON string with the standard
\* escaping, so its output is the JSON text of v.
C4_KeysEscaped == pc \notin {"MarshalJSON", "log.Fatal"} => data = Standard(v)

\* C5: a decoded number without a fractional part is an Integer, one with a
\* fractional part a Float, and every other scalar keeps its variant and place.
C5_NumericClassification ==
    (Returned /\ ret = "nil") => Outline(result, TRUE) = Outline(v, TRUE)

\* C6: the nil ordered object is encoded as null, the empty one as {}, and {}
\* is decoded to a non-nil object without entries, which is encoded as {}.
C6_NullVersusEmpty ==
    /\ (pc # "MarshalJSON" /\ v.t = "nilJSONMapSlice") => data = Bytes("null")
    /\ (pc # "MarshalJSON" /\ v.t = "JSONMapSlice" /\ v.v = <<>>) => data = <<"{", "}">>
    /\ (Returned /\ data = <<"{", "}">>)
          => (ret = "nil" /\ result.t = "JSONMapSlice" /\ result.v = <<>>)
    /\ (pc = "done" /\ data = <<"{", "}">>) => out = <<"{", "}">>

\* the empty object went through MarshalJSON, UnmarshalJSON and MarshalJSON
C6_Witness ==
    /\ pc = "done"
    /\ v.t = "JSONMapSlice"
    /\ v.v = <<>>
    /\ result.t = "JSONMapSlice"
    /\ out = <<"{", "}">>

\* C7 as claimed: wherever the input stops inside the object, UnmarshalJSON
\* returns no error.
C7_TruncationNeverFails ==
    (pc = "returned" /\ lastErr = "EOF" /\ result.t = "JSONMapSlice") => ret = "nil"

\* C7 as amended: when the read of JSONunmarshal's loop meets the end of the
\* input, that level ends with the entries it has collected and the read sets
\* no error, so UnmarshalJSON returns the error set before, if any; the end of
\* the input met by a read for a value or inside an array is set as the error.
C7_TruncationLenient ==
    [][/\ (pc = "JSONunmarshal" /\ Token(data, dec).err = "EOF") =>
            /\ derr' = derr
            /\ IF Len(frames) = 1
               THEN /\ pc' = "returned"
                    /\ ret' = derr
                    /\ result'.t = "JSONMapSlice"
                    /\ SameText(result', MapSlice(Top(frames).items))
               ELSE /\ Len(frames') = Len(frames) - 1
                    /\ Len(Top(frames').items) = Len(Top(Pop(frames)).items) + 1
                    /\ LET got == Top(frames').items[Len(Top(frames').items)]
                           x == IF Top(frames').kind = "obj" THEN got.Value ELSE got
                       IN /\ x.t = "JSONMapSlice"
                          /\ SameText(x, MapSlice(Top(frames).items))
       /\ (pc \in {"UnmarshalCustomJSON", "asInterfaceArray"} /\ lastErr' = "EOF")
            => derr' = "EOF"
      ]_vars

\* an object cut off after a pair was decoded, without error, to that pair
C7_Witness ==
    /\ pc = "done"
    /\ ret = "nil"
    /\ lastErr = "EOF"
    /\ result.t = "JSONMapSlice"
    /\ Len(result.v) = 1
    /\ result.v[1].Value.t = "float64"

\* C8: a key that is not followed at once by a colon sets no error and adds no
\* entry to the object being decoded.
C8_PairSkipped ==
    [][(/\ pc = "UnmarshalCustomJSON"
        /\ dec.tokenState = "tokenObjectColon"
        /\ currentToken.t = "string"
        /\ InputOffset(dec) < Len(data)
        /\ data[InputOffset(dec) + 1] # ":")
          => (/\ derr' = derr
              /\ Len(frames') = Len(frames)
              /\ Len(Top(frames').items) = Len(Top(frames).items))]_vars

\* C9: every turn of the pair loop ends the loop or moves the tokenizer on, so
\* that the loop ends after finitely many reads: the loop is never at a turn
\* that leaves the tokenizer where it is and repeats without end.
C9_Terminates == ~Runaway

\* C10: the offset UnmarshalCustomJSON reads the buffer at lies inside the
\* buffer, the token it takes as a key is a string, and no decode panics.
C10_NoCrash ==
    /\ pc # "panic"
    /\ pc = "UnmarshalCustomJSON" =>
          /\ InputOffset(dec) < Len(data)
          /\ data[InputOffset(dec) + 1] = ":" => currentToken.t = "string"

====
